---- MODULE Spec2Model ----
(***************************************************************************)
(* Model of Baikal/SceneGraph/IO/scene_io.cpp: the OBJ scene loader.       *)
(*                                                                         *)
(*   SpecSplit    the per-material mesh split of LoadScene (lines 109-184) *)
(*                applied to every bounded RawShape.                       *)
(*   SpecClassify calls of TranslateMaterial on one loader, over every     *)
(*                combination of the material fields the code reads.       *)
(*   SpecCache    calls of TranslateMaterial on one loader with two        *)
(*                material names.                                          *)
(*   SpecScene    calls of LoadScene on one loader.                        *)
(*   SpecTexture  calls of LoadTexture on one loader.                      *)
(*                                                                         *)
(* C arrays are 0-based; TLA+ sequences are 1-based: At(a, i) is a[i].     *)
(* Floats are modelled by integers (vertex data is only copied).           *)
(***************************************************************************)
EXTENDS Integers, Sequences, FiniteSets, TLC

VARIABLES
    shape,      \* SpecSplit: the tinyobj shape_t being split (objshapes[s])
    todo,       \* SpecSplit: used_materials still to iterate, ascending
    meshes,     \* SpecSplit: the meshes built so far, <<[used_material, mesh]>>
    loader,     \* the loader: m_material_cache, m_texture_cache
    first,      \* history: name -> the Material the first call for it returned
    last,       \* history: the last TranslateMaterial call, or NoCall
    result,     \* SpecScene: the outcome of the LoadScene call, or NoLoad
    decodes,    \* history: name -> the Texture its first successful decode made
    lastload    \* history: the last LoadTexture call, or NoCall

vars == <<shape, todo, meshes, loader, first, last, result, decodes, lastload>>

-----------------------------------------------------------------------------
(* Bounds and input data                                                   *)

\* Largest number of faces of an input shape.
MaxFaces == 2

\* The vertex table of the input shapes: 3 vertices. Vertices 0 and 1 carry
\* the same position and normal, so they differ by index only.
Positions == <<1, 2, 3,  1, 2, 3,  7, 8, 9>>
Normals   == <<0, 0, 1,  0, 0, 1,  0, 1, 0>>
Texcoords == <<10, 11,  12, 13,  14, 15>>

VertexIds == 0 .. ((Len(Positions) \div 3) - 1)

\* Material ids of the faces of an input shape (negative: no material).
ShapeMaterialIds == {-1, 0}

-----------------------------------------------------------------------------
(* Helpers                                                                 *)

At(a, i) == a[i + 1]

RECURSIVE Flatten(_)
Flatten(ss) == IF ss = <<>> THEN <<>> ELSE Head(ss) \o Flatten(Tail(ss))

\* The elements of a std::set<int> in iteration (ascending) order.
RECURSIVE Ascending(_)
Ascending(S) ==
    IF S = {} THEN <<>>
    ELSE LET m == CHOOSE x \in S : \A y \in S : x <= y
         IN  <<m>> \o Ascending(S \ {m})

\* All sequences over S of length 0..n.
SeqsUpTo(S, n) == UNION {[1..k -> S] : k \in 0..n}

-----------------------------------------------------------------------------
(* The mesh split, LoadScene lines 117-184                                 *)

\* State of one split: the locals declared at lines 120-126.
EmptySplit ==
    [used_indices |-> <<>>, indices |-> <<>>,
     vertices |-> <<>>, normals |-> <<>>, texcoords |-> <<>>]

\* Line 139: the original vertex index of corner j of face i.
OldIndex(sh, i, j) == At(sh.indices, At(sh.num_vertices, i) * i + j)

\* Mutant of DidInsert: every reference inserts (no deduplication).
DidInsert_Always(st, old_index) == TRUE

\* Line 141: used_indices.emplace(old_index, vertices.size() / 3) inserts
\* only when old_index is not yet a key.
DidInsert(st, old_index) == old_index \notin DOMAIN st.used_indices

\* Mutant of NewIndex: the original index is pushed instead of the compact one.
NewIndex_Original(st, old_index) == old_index

\* Line 153: result.first->second, the compact index of old_index.
NewIndex(st, old_index) ==
    IF DidInsert(st, old_index)
    THEN Len(st.vertices) \div 3
    ELSE st.used_indices[old_index]

\* Lines 145-151: the data pushed for a newly inserted vertex.
PushVertex(st, sh, old_index) ==
    [st EXCEPT
       !.used_indices = (old_index :> (Len(st.vertices) \div 3)) @@ @,
       !.vertices  = @ \o [k \in 1..3 |-> At(sh.positions, 3 * old_index + (k - 1))],
       !.normals   = @ \o [k \in 1..3 |-> At(sh.normals, 3 * old_index + (k - 1))],
       !.texcoords = IF sh.texcoords # <<>>
                     THEN @ \o [k \in 1..2 |-> At(sh.texcoords, 2 * old_index + (k - 1))]
                     ELSE @]

\* Lines 139-154: one vertex reference of a matching face.
VertexStep(st, sh, old_index) ==
    LET new_index == NewIndex(st, old_index)
        pushed    == IF DidInsert(st, old_index)
                     THEN PushVertex(st, sh, old_index) ELSE st
    IN  [pushed EXCEPT !.indices = Append(@, new_index)]

\* Mutant of UsesMaterial: the skip at line 132 is missing.
UsesMaterial_NoSkip(sh, i, used_material) == TRUE

\* Line 132: faces which don't use the current material are skipped.
UsesMaterial(sh, i, used_material) == At(sh.material_ids, i) = used_material

\* Lines 137-155: the loop over the corners of face i, from corner j on.
RECURSIVE CornerLoop(_, _, _, _)
CornerLoop(st, sh, i, j) ==
    IF j >= At(sh.num_vertices, i) THEN st
    ELSE CornerLoop(VertexStep(st, sh, OldIndex(sh, i, j)), sh, i, j + 1)

\* Lines 129-156: the loop over the faces, from face i on.
RECURSIVE FaceLoop(_, _, _, _)
FaceLoop(st, sh, i, used_material) ==
    IF i >= Len(sh.material_ids) THEN st
    ELSE FaceLoop(IF UsesMaterial(sh, i, used_material)
                  THEN CornerLoop(st, sh, i, 0) ELSE st,
                  sh, i + 1, used_material)

\* Mesh::SetVertices / SetNormals / SetUVs take n packed tuples of width w.
Packed(flat, n, w) == [v \in 1..n |-> [k \in 1..w |-> flat[w * (v - 1) + k]]]

\* Mutant of CreateMesh: the zero fill of lines 175-180 is missing.
CreateMesh_NoZeroFill(st) ==
    [vertices |-> Packed(st.vertices, Len(st.vertices) \div 3, 3),
     normals  |-> Packed(st.normals, Len(st.normals) \div 3, 3),
     uvs      |-> Packed(st.texcoords, Len(st.texcoords) \div 2, 2),
     indices  |-> st.indices]

\* Lines 158-184: the Mesh built from the collected buffers.
CreateMesh(st) ==
    LET num_vertices == Len(st.vertices) \div 3
        num_normals  == Len(st.normals) \div 3
        num_uvs      == Len(st.texcoords) \div 2
    IN  [vertices |-> Packed(st.vertices, num_vertices, 3),
         normals  |-> Packed(st.normals, num_normals, 3),
         uvs      |-> IF num_uvs # 0
                      THEN Packed(st.texcoords, num_uvs, 2)
                      ELSE [v \in 1..num_vertices |-> <<0, 0>>],
         indices  |-> st.indices]

\* Lines 117-184: the Mesh for one (shape, used_material) pair.
SplitMesh(sh, used_material) ==
    CreateMesh(FaceLoop(EmptySplit, sh, 0, used_material))

\* Line 114: the material ids used by the faces of the shape.
UsedMaterials(sh) == {sh.material_ids[f] : f \in 1..Len(sh.material_ids)}

-----------------------------------------------------------------------------
(* Textures: SceneIo::LoadTexture, lines 43-67                             *)

\* The null Texture::Ptr: no instance (instances are numbered from 1).
Null == [id |-> 0, name |-> "", path |-> ""]

\* No TranslateMaterial call has been made yet.
NoCall == [called |-> FALSE]

\* No LoadScene call is outstanding.
NoLoad == [loaded |-> FALSE]

\* A loader right after construction: both caches empty. n_materials and
\* n_textures count the instances created so far and give each new instance
\* its identity (shared_ptr identity in the code).
NewLoader ==
    [m_material_cache |-> <<>>, m_texture_cache |-> <<>>,
     n_materials |-> 0, n_textures |-> 0]

\* Mutant of TextureCached: the cache is never hit.
TextureCached_Never(ld, name) == FALSE

\* Lines 45-50: the name is in m_texture_cache.
TextureCached(ld, name) == name \in DOMAIN ld.m_texture_cache

\* Lines 43-67. broken is the set of paths the image decoder fails on
\* (io.LoadImage throws std::runtime_error). The result carries the texture
\* (or Null), the loader afterwards and the paths handed to the decoder.
LoadTexture(ld, basepath, name, broken) ==
    IF TextureCached(ld, name)
    THEN [texture |-> ld.m_texture_cache[name], loader |-> ld, decoded |-> <<>>]
    ELSE IF (basepath \o name) \in broken
    THEN [texture |-> Null, loader |-> ld, decoded |-> <<basepath \o name>>]
    ELSE LET texture == [id |-> ld.n_textures + 1, name |-> name,
                         path |-> basepath \o name]
         IN  [texture |-> texture,
              loader  |-> [ld EXCEPT !.m_texture_cache = (name :> texture) @@ @,
                                     !.n_textures = @ + 1],
              decoded |-> <<basepath \o name>>]

-----------------------------------------------------------------------------
(* Materials: SceneIoObj::TranslateMaterial, lines 236-487                 *)

\* RadeonRays::float3::sqnorm. Colors are given in hundredths, so the result
\* is in ten-thousandths.
SqNorm(c) == c[1] * c[1] + c[2] * c[2] + c[3] * c[3]

\* Input maps. Float constants are in hundredths as well.
ConstantFloat(x)   == <<"ConstantFloat", x>>
ConstantFloat3(c)  == <<"ConstantFloat3", c>>
Sampler(texture)   == <<"Sampler", texture>>
Pow(base, power)   == <<"Pow", base, power>>
SamplerBumpMap(texture) == <<"SamplerBumpMap", texture>>
Remap(src, dst, v) == <<"Remap", src, dst, v>>

\* Lines 262-264 (and 302-304, 317-319, ...): the texture raised to 2.2.
GammaTexture(texture) == Pow(Sampler(texture), ConstantFloat(220))

\* Lines 280-282.
default_ior       == ConstantFloat(300)
default_roughness == ConstantFloat(1)
default_one       == ConstantFloat(100)

\* A translation in progress: the material being built, the loader, and the
\* LoadTexture calls made so far (the name asked for, the texture returned,
\* the paths handed to the decoder).
\* UberV2Material::Create(): no input assigned by this file, no layer set.
Create(ld) ==
    [material |-> [id |-> ld.n_materials + 1, name |-> "", layers |-> {},
                   inputs |-> <<>>],
     loader   |-> [ld EXCEPT !.n_materials = @ + 1],
     loads    |-> <<>>]

\* material->SetInputValue(name, value): the named slot now holds value.
SetInputValue(b, name, value) ==
    [b EXCEPT !.material.inputs = (name :> value) @@ @]

\* SetLayers(layers).
SetLayers(b, layers) == [b EXCEPT !.material.layers = layers]

\* Lines 330-334: the bump sampler remapped from (0,1,0) to (-1,1,0).
BumpRemap(texture) ==
    Remap(ConstantFloat3(<<0, 100, 0>>), ConstantFloat3(<<-100, 100, 0>>),
          SamplerBumpMap(texture))

\* auto texture = LoadTexture(image_io, scene, basepath, texname), followed
\* by SetInputValue(slot, ...) of the input map built on the texture: the
\* remapped bump sampler when bump, the texture raised to 2.2 otherwise.
SetFromTexture(b, slot, bump, basepath, texname, broken) ==
    LET r == LoadTexture(b.loader, basepath, texname, broken)
    IN  [SetInputValue(b, slot, IF bump THEN BumpRemap(r.texture)
                                ELSE GammaTexture(r.texture)) EXCEPT
           !.loader = r.loader,
           !.loads  = Append(@, [name |-> texname, texture |-> r.texture,
                                 decoded |-> r.decoded])]

\* Lines 327-338 (repeated at 370-381, 426-437, 462-473): the bump texture,
\* when named, feeds the shading normal. Yields <<b, layers>>.
SetBump(b, layers, mat, basepath, broken) ==
    IF mat.bump_texname # ""
    THEN <<SetFromTexture(b, "uberv2.shading_normal", TRUE,
                          basepath, mat.bump_texname, broken),
           layers \cup {"kShadingNormalLayer"}>>
    ELSE <<b, layers>>

\* Line 252.
IsEmissive(mat) == SqNorm(mat.emission) > 0

\* Line 283.
IsRefractive(mat) == SqNorm(mat.transmittance) > 0 /\ SqNorm(mat.specular) > 0

\* Mutant of IsReflectionOnly: the diffuse color is not looked at.
IsReflectionOnly_AnyDiffuse(mat) == SqNorm(mat.specular) > 0

\* Line 345: d.sqnorm() < 0.01, i.e. below 100 ten-thousandths.
IsReflectionOnly(mat) == SqNorm(mat.diffuse) < 100 /\ SqNorm(mat.specular) > 0

\* Line 385.
IsDiffuseReflection(mat) == SqNorm(mat.specular) > 0 \/ mat.specular_texname # ""

\* Mutant of EmissiveMaterial: the diffuse layer is enabled next to emission.
EmissiveMaterial_WithDiffuse(ld, mat, basepath, broken) ==
    SetLayers(SetInputValue(SetInputValue(Create(ld), "uberv2.emission.color",
                                          ConstantFloat3(mat.emission)),
                            "uberv2.diffuse.color", ConstantFloat3(mat.diffuse)),
              {"kEmissionLayer", "kDiffuseLayer"})

\* Lines 254-272: the emissive material.
EmissiveMaterial(ld, mat, basepath, broken) ==
    LET b0 == Create(ld)
        b1 == IF mat.diffuse_texname # ""
              THEN SetFromTexture(b0, "uberv2.emission.color", FALSE,
                                  basepath, mat.diffuse_texname, broken)
              ELSE SetInputValue(b0, "uberv2.emission.color",
                                 ConstantFloat3(mat.emission))
    IN  SetLayers(b1, {"kEmissionLayer"})

\* Lines 285-343: refraction + diffuse + reflection.
RefractionMaterial(ld, mat, basepath, broken) ==
    LET layers == {"kDiffuseLayer", "kReflectionLayer", "kRefractionLayer"}
        b0 == Create(ld)
        b1 == SetInputValue(b0, "uberv2.reflection.ior", default_ior)
        b2 == SetInputValue(b1, "uberv2.refraction.ior", default_ior)
        b3 == SetInputValue(b2, "uberv2.reflection.roughness", default_roughness)
        b4 == SetInputValue(b3, "uberv2.refraction.roughness", default_roughness)
        b5 == SetInputValue(b4, "uberv2.reflection.metalness", default_one)
        b6 == IF mat.diffuse_texname # ""
              THEN SetFromTexture(b5, "uberv2.diffuse.color", FALSE,
                                  basepath, mat.diffuse_texname, broken)
              ELSE SetInputValue(b5, "uberv2.diffuse.color",
                                 ConstantFloat3(mat.diffuse))
        b7 == IF mat.specular_texname # ""
              THEN SetFromTexture(b6, "uberv2.reflecton.color", FALSE,
                                  basepath, mat.specular_texname, broken)
              ELSE SetInputValue(b6, "uberv2.reflection.color",
                                 ConstantFloat3(mat.specular))
        bl == SetBump(b7, layers, mat, basepath, broken)
        b8 == SetInputValue(bl[1], "uberv2.refraction.color",
                            ConstantFloat3(mat.transmittance))
    IN  SetLayers(b8, bl[2])

\* Lines 347-383: reflection only.
ReflectionMaterial(ld, mat, basepath, broken) ==
    LET layers == {"kReflectionLayer"}
        b0 == Create(ld)
        b1 == SetInputValue(b0, "uberv2.reflection.ior", default_ior)
        b2 == SetInputValue(b1, "uberv2.reflection.roughness", default_roughness)
        b3 == SetInputValue(b2, "uberv2.reflection.metalness", default_one)
        b4 == IF mat.specular_texname # ""
              THEN SetFromTexture(b3, "uberv2.reflecton.color", FALSE,
                                  basepath, mat.specular_texname, broken)
              ELSE SetInputValue(b3, "uberv2.reflection.color",
                                 ConstantFloat3(mat.specular))
        bl == SetBump(b4, layers, mat, basepath, broken)
    IN  SetLayers(bl[1], bl[2])

\* Lines 387-439: diffuse + reflection. The two "else" are commented out
\* (lines 405, 420): the flat colors are set after the textures.
DiffuseReflectionMaterial(ld, mat, basepath, broken) ==
    LET layers == {"kDiffuseLayer", "kReflectionLayer"}
        b0 == Create(ld)
        b1 == SetInputValue(b0, "uberv2.reflection.ior", default_ior)
        b2 == SetInputValue(b1, "uberv2.reflection.roughness", default_roughness)
        b3 == SetInputValue(b2, "uberv2.reflection.metalness", default_one)
        b4 == IF mat.diffuse_texname # ""
              THEN SetFromTexture(b3, "uberv2.diffuse.color", FALSE,
                                  basepath, mat.diffuse_texname, broken)
              ELSE b3
        b5 == SetInputValue(b4, "uberv2.diffuse.color", ConstantFloat3(mat.diffuse))
        b6 == IF mat.specular_texname # ""
              THEN SetFromTexture(b5, "uberv2.reflection.color", FALSE,
                                  basepath, mat.specular_texname, broken)
              ELSE b5
        b7 == SetInputValue(b6, "uberv2.reflection.color", ConstantFloat3(mat.specular))
        bl == SetBump(b7, layers, mat, basepath, broken)
    IN  SetLayers(bl[1], bl[2])

\* Lines 443-475: diffuse only.
DiffuseMaterial(ld, mat, basepath, broken) ==
    LET layers == {"kDiffuseLayer"}
        b0 == Create(ld)
        b1 == IF mat.diffuse_texname # ""
              THEN SetFromTexture(b0, "uberv2.diffuse.color", FALSE,
                                  basepath, mat.diffuse_texname, broken)
              ELSE SetInputValue(b0, "uberv2.diffuse.color",
                                 ConstantFloat3(mat.diffuse))
        bl == SetBump(b1, layers, mat, basepath, broken)
    IN  SetLayers(bl[1], bl[2])

\* Lines 246-477: the classification procedure.
Classify(ld, mat, basepath, broken) ==
    IF IsEmissive(mat) THEN EmissiveMaterial(ld, mat, basepath, broken)
    ELSE IF IsRefractive(mat) THEN RefractionMaterial(ld, mat, basepath, broken)
    ELSE IF IsReflectionOnly(mat) THEN ReflectionMaterial(ld, mat, basepath, broken)
    ELSE IF IsDiffuseReflection(mat)
         THEN DiffuseReflectionMaterial(ld, mat, basepath, broken)
    ELSE DiffuseMaterial(ld, mat, basepath, broken)

\* Mutant of MaterialCached: the cache is never hit.
MaterialCached_Never(ld, mat) == FALSE

\* Lines 238-240: the name is in m_material_cache.
MaterialCached(ld, mat) == mat.name \in DOMAIN ld.m_material_cache

\* Line 483: m_material_cache.emplace keeps an entry that is already there.
Emplace(cache, name, material) ==
    IF name \in DOMAIN cache THEN cache ELSE (name :> material) @@ cache

\* Lines 236-487. Yields the Material returned, the loader afterwards,
\* whether the classification procedure ran and the LoadTexture calls made.
TranslateMaterial(ld, mat, basepath, broken) ==
    IF MaterialCached(ld, mat)
    THEN [material |-> ld.m_material_cache[mat.name], loader |-> ld,
          classified |-> FALSE, loads |-> <<>>]
    ELSE LET b == Classify(ld, mat, basepath, broken)
             material == [b.material EXCEPT !.name = mat.name]
         IN  [material   |-> material,
              loader     |-> [b.loader EXCEPT !.m_material_cache =
                                Emplace(@, mat.name, material)],
              classified |-> TRUE,
              loads      |-> b.loads]

-----------------------------------------------------------------------------
(* The scene assembly: SceneIoObj::LoadScene, lines 69-235                 *)

\* A Mesh without material (SetMaterial was not called).
NoMaterial == [id |-> 0, name |-> "", layers |-> {}, inputs |-> <<>>]

\* Line 210: the environment map decoded at the end of every load.
IblPath == "../Resources/Textures/studio015.hdr"

\* Material::HasEmission for the materials this file builds: the emission
\* layer is enabled.
HasEmission(material) == "kEmissionLayer" \in material.layers

\* Lines 96-106: translate objmaterials[i..], collecting the emissive subset
\* (a std::set of pointers: instances are told apart by id). Collected is
\* the body of the loop once TranslateMaterial has returned r.
RECURSIVE TranslateAll(_, _, _, _, _, _, _), Collected(_, _, _, _, _, _, _)
TranslateAll(ld, objmaterials, i, materials, emissives, basepath, broken) ==
    IF i >= Len(objmaterials)
    THEN [loader |-> ld, materials |-> materials, emissives |-> emissives]
    ELSE Collected(TranslateMaterial(ld, At(objmaterials, i), basepath, broken),
                   objmaterials, i, materials, emissives, basepath, broken)
Collected(r, objmaterials, i, materials, emissives, basepath, broken) ==
    TranslateAll(r.loader, objmaterials, i + 1,
                 Append(materials, r.material),
                 IF HasEmission(r.material)
                 THEN emissives \cup {r.material.id} ELSE emissives,
                 basepath, broken)

\* Mutant of NumAreaLights: one light per index instead of per triangle.
NumAreaLights_PerIndex(mesh) == Len(mesh.indices)

\* Line 200: the number of area lights of an emissive mesh.
NumAreaLights(mesh) == Len(mesh.indices) \div 3

\* Line 197: the mesh has a material and it is in the emissive subset.
IsEmissiveMesh(used_material, materials, emissives) ==
    used_material >= 0 /\ At(materials, used_material).id \in emissives

\* Lines 158-205 for one used_material of one shape: the Mesh with its
\* material, attached to the scene, followed by its area lights. Meshes are
\* numbered in creation order.
AttachMesh(scene, sh, used_material, materials, emissives) ==
    LET mesh   == SplitMesh(sh, used_material)
        id     == Cardinality({p \in 1..Len(scene) : scene[p].kind = "Mesh"}) + 1
        lights == IF IsEmissiveMesh(used_material, materials, emissives)
                  THEN [l \in 1..NumAreaLights(mesh) |->
                          [kind |-> "AreaLight", mesh |-> id, prim |-> l - 1]]
                  ELSE <<>>
    IN  Append(scene,
               [kind |-> "Mesh", id |-> id, mesh |-> mesh,
                material |-> IF used_material >= 0
                             THEN At(materials, used_material)
                             ELSE NoMaterial])
        \o lights

\* Lines 117-206: the loop over the used materials of one shape.
RECURSIVE MaterialLoop(_, _, _, _, _)
MaterialLoop(scene, sh, used, materials, emissives) ==
    IF used = <<>> THEN scene
    ELSE MaterialLoop(AttachMesh(scene, sh, Head(used), materials, emissives),
                      sh, Tail(used), materials, emissives)

\* Lines 109-207: the loop over the shapes, from shape s on.
RECURSIVE ShapeLoop(_, _, _, _, _)
ShapeLoop(scene, objshapes, s, materials, emissives) ==
    IF s >= Len(objshapes) THEN scene
    ELSE ShapeLoop(MaterialLoop(scene, At(objshapes, s),
                                Ascending(UsedMaterials(At(objshapes, s))),
                                materials, emissives),
                   objshapes, s + 1, materials, emissives)

\* Lines 220-222 and 213-217: the two default lights.
DefaultDirectionalLight ==
    [kind |-> "DirectionalLight", direction |-> <<10, -100, -10>>,
     radiance |-> <<100, 100, 100>>]
DefaultImageBasedLight ==
    [kind |-> "ImageBasedLight", texture |-> IblPath, multiplier |-> 1500]

\* An exception leaves LoadScene: no scene is returned.
Thrown(ld, parsed) ==
    [loader |-> ld,
     outcome |-> [loaded |-> TRUE, parsed |-> parsed, returned |-> FALSE,
                  scene |-> <<>>, emissives |-> {}]]

\* Lines 108-234: the shapes and the default lights, t being what the
\* material loop left: the loader, materials and emissives.
Assemble(t, file, broken) ==
    IF IblPath \in broken THEN Thrown(t.loader, TRUE)
    ELSE [loader |-> t.loader,
          outcome |-> [loaded |-> TRUE, parsed |-> TRUE, returned |-> TRUE,
                       scene |-> ShapeLoop(<<>>, file.objshapes, 0,
                                           t.materials, t.emissives)
                                 \o <<DefaultDirectionalLight,
                                      DefaultImageBasedLight>>,
                       emissives |-> t.emissives]]

\* Lines 69-235. file is what LoadObj makes of the file: res (line 82),
\* objshapes, objmaterials. broken is the set of paths the image decoder
\* fails on. Yields the loader afterwards and the outcome of the call.
LoadScene(ld, file, basepath, broken) ==
    IF ~file.res THEN Thrown(ld, FALSE)
    ELSE Assemble(TranslateAll(ld, file.objmaterials, 0, <<>>, {}, basepath, broken),
                  file, broken)

-----------------------------------------------------------------------------
(* SpecSplit: every bounded RawShape, split material by material           *)

\* The shapes tinyobj hands over with triangulation|calculate_normals: every
\* face has 3 corners, normals are present, texcoords may be empty.
RawShapes ==
    { [material_ids |-> mids,
       num_vertices |-> [f \in 1..Len(mids) |-> 3],
       indices      |-> Flatten(tris),
       positions    |-> Positions,
       normals      |-> Normals,
       texcoords    |-> tc] :
      <<mids, tris, tc>> \in
        { x \in SeqsUpTo(ShapeMaterialIds, MaxFaces)
                \X SeqsUpTo([1..3 -> VertexIds], MaxFaces)
                \X {<<>>, Texcoords} :
          Len(x[1]) = Len(x[2]) /\ Len(x[1]) >= 1 } }

InitSplit ==
    /\ shape \in RawShapes
    /\ todo = Ascending(UsedMaterials(shape))
    /\ meshes = <<>>
    /\ loader = NewLoader
    /\ first = <<>>
    /\ last = NoCall
    /\ result = NoLoad
    /\ decodes = <<>>
    /\ lastload = NoCall

\* One iteration of the loop at line 117 (up to the mesh's construction).
SplitNext ==
    /\ todo # <<>>
    /\ meshes' = Append(meshes, [used_material |-> Head(todo),
                                 mesh |-> SplitMesh(shape, Head(todo))])
    /\ todo' = Tail(todo)
    /\ UNCHANGED <<shape, loader, first, last, result, decodes, lastload>>

NextSplit == SplitNext

SpecSplit == InitSplit /\ [][NextSplit]_vars

-----------------------------------------------------------------------------
(* SpecClassify and SpecCache: TranslateMaterial called on one loader      *)

Black == <<0, 0, 0>>

\* material_t records: colors in hundredths, "" for an unnamed texture.
RawMaterial(name, e, d, s, t, dtex, stex, btex) ==
    [name |-> name, emission |-> e, diffuse |-> d, specular |-> s,
     transmittance |-> t, diffuse_texname |-> dtex,
     specular_texname |-> stex, bump_texname |-> btex]

\* Every combination of the conditions TranslateMaterial branches on, under
\* one name: diffuse below and above the 0.01 threshold, the other colors
\* zero and non-zero, each texture named or not.
ClassifyMaterials ==
    { RawMaterial("a", e, d, s, t, dtex, stex, btex) :
        e \in {Black, <<100, 0, 0>>},
        d \in {<<5, 5, 5>>, <<50, 50, 50>>},
        s \in {Black, <<30, 30, 30>>},
        t \in {Black, <<20, 20, 20>>},
        dtex \in {"", "d.png"}, stex \in {"", "s.png"}, btex \in {"", "n.png"} }

\* Two names, emissive or not, with or without a diffuse texture.
CacheMaterials ==
    { RawMaterial(name, e, <<50, 50, 50>>, Black, Black, dtex, "", "") :
        name \in {"a", "b"}, e \in {Black, <<100, 0, 0>>},
        dtex \in {"", "d.png"} }

Basepaths == {"base/"}

\* The files a material names, as the decoder is asked for them.
TexturePaths(mat, basepath) ==
    {basepath \o n : n \in {mat.diffuse_texname, mat.specular_texname,
                            mat.bump_texname} \ {""}}

\* One call TranslateMaterial(image_io, mat, basepath, scene), the decoder
\* failing on the files in broken.
Translate(mat, basepath, broken) ==
    \E r \in {TranslateMaterial(loader, mat, basepath, broken)} :
      \E seen \in {mat.name \in DOMAIN first} :
        /\ loader' = r.loader
        /\ first' = IF seen THEN first ELSE (mat.name :> r.material) @@ first
        /\ last' = [called |-> TRUE, mat |-> mat, material |-> r.material,
                    classified |-> r.classified, loads |-> r.loads,
                    seen |-> seen,
                    cached |-> mat.name \in DOMAIN loader.m_material_cache]
        /\ UNCHANGED <<shape, todo, meshes, result, decodes, lastload>>

InitLoader ==
    /\ shape = <<>> /\ todo = <<>> /\ meshes = <<>>
    /\ loader = NewLoader
    /\ first = <<>>
    /\ last = NoCall
    /\ result = NoLoad
    /\ decodes = <<>>
    /\ lastload = NoCall

\* The decoder is only asked when the material is classified, so its
\* failures are enumerated for those calls only.
TranslateAny ==
    \E mat \in ClassifyMaterials : \E basepath \in Basepaths :
      \E broken \in (IF MaterialCached(loader, mat) THEN {{}}
                     ELSE SUBSET TexturePaths(mat, basepath)) :
        Translate(mat, basepath, broken)

SpecClassify == InitLoader /\ [][TranslateAny]_vars

TranslateNamed ==
    \E mat \in CacheMaterials : \E basepath \in Basepaths :
      \E broken \in SUBSET TexturePaths(mat, basepath) :
        Translate(mat, basepath, broken)

SpecCache == InitLoader /\ [][TranslateNamed]_vars

-----------------------------------------------------------------------------
(* SpecScene: LoadScene called on one loader, one scene held at a time     *)

\* Largest number of materials and of shapes in a file.
MaxSceneMaterials == 2
MaxSceneShapes == 1

\* The materials of the files: "a" defined without and with emission, "b"
\* emissive with a diffuse texture.
SceneMaterials ==
    { RawMaterial("a", Black, <<50, 50, 50>>, Black, Black, "", "", ""),
      RawMaterial("a", <<100, 0, 0>>, <<50, 50, 50>>, Black, Black, "", "", ""),
      RawMaterial("b", <<100, 0, 0>>, <<50, 50, 50>>, Black, Black, "d.png", "", "") }

\* The triangles of the shapes of the files: a shape has the first one or
\* both, the second sharing two vertices with the first.
SceneTriangles == << <<0, 1, 2>>, <<2, 1, 0>> >>

\* The shapes of a file with n materials: face material ids are -1..n-1.
SceneShapes(n) ==
    { [material_ids |-> mids,
       num_vertices |-> [f \in 1..Len(mids) |-> 3],
       indices      |-> Flatten(SubSeq(SceneTriangles, 1, Len(mids))),
       positions    |-> Positions,
       normals      |-> Normals,
       texcoords    |-> <<>>] :
      mids \in SeqsUpTo(-1 .. (n - 1), Len(SceneTriangles)) \ {<<>>} }

\* What LoadObj can make of a file.
SceneFiles ==
    {[res |-> FALSE, objshapes |-> <<>>, objmaterials |-> <<>>]}
    \cup UNION { { [res |-> TRUE, objshapes |-> shs, objmaterials |-> mats] :
                   shs \in SeqsUpTo(SceneShapes(Len(mats)), MaxSceneShapes) } :
                 mats \in SeqsUpTo(SceneMaterials, MaxSceneMaterials) }

\* The paths the decoder is asked for during a load of the file.
ScenePaths(file, basepath) ==
    IF file.res
    THEN {IblPath} \cup UNION {TexturePaths(file.objmaterials[i], basepath) :
                               i \in 1..Len(file.objmaterials)}
    ELSE {}

\* One call LoadScene(filename, basepath); the caller holds no scene.
LoadSceneCall ==
    /\ ~result.loaded
    /\ \E file \in SceneFiles : \E basepath \in Basepaths :
         \E broken \in SUBSET ScenePaths(file, basepath) :
           \E r \in {LoadScene(loader, file, basepath, broken)} :
               /\ loader' = r.loader
               /\ result' = r.outcome
    /\ UNCHANGED <<shape, todo, meshes, first, last, decodes, lastload>>

\* The caller lets go of the scene (or has handled the exception); the
\* loader and its caches live on.
DropScene ==
    /\ result.loaded
    /\ result' = NoLoad
    /\ UNCHANGED <<shape, todo, meshes, loader, first, last, decodes, lastload>>

NextScene == LoadSceneCall \/ DropScene

SpecScene == InitLoader /\ [][NextScene]_vars

-----------------------------------------------------------------------------
(* SpecTexture: LoadTexture called on one loader                           *)

\* The texture names and base paths of the calls.
TextureNames == {"d.png", "s.png", "n.png"}
TextureBasepaths == {"base/", "alt/"}

\* One call LoadTexture(io, scene, basepath, name); fails tells whether
\* io.LoadImage throws std::runtime_error if it is asked.
LoadTextureCall ==
    \E name \in TextureNames : \E basepath \in TextureBasepaths :
      \E fails \in BOOLEAN :
        \E r \in {LoadTexture(loader, basepath, name,
                              IF fails THEN {basepath \o name} ELSE {})} :
          /\ loader' = r.loader
          /\ decodes' = IF r.decoded # <<>> /\ ~fails /\ name \notin DOMAIN decodes
                        THEN (name :> r.texture) @@ decodes ELSE decodes
          /\ lastload' = [called |-> TRUE, name |-> name, basepath |-> basepath,
                          fails |-> fails, texture |-> r.texture,
                          decoded |-> r.decoded,
                          cached |-> name \in DOMAIN loader.m_texture_cache,
                          before |-> loader.m_texture_cache]
          /\ UNCHANGED <<shape, todo, meshes, first, last, result>>

SpecTexture == InitLoader /\ [][LoadTextureCall]_vars

-----------------------------------------------------------------------------
(* Properties of the split (SpecSplit)                                     *)

\* The faces of sh (0-based, in original order) whose material id is m.
MatchingFaces(sh, m) ==
    SelectSeq([f \in 1..Len(sh.material_ids) |-> f - 1],
              LAMBDA f : sh.material_ids[f + 1] = m)

\* The original vertex index of corner j (0..2) of triangle f of sh.
Corner(sh, f, j) == sh.indices[3 * f + j + 1]

\* Vertex v (0-based) of a flat array of tuples of width w.
Tuple(flat, v, w) == [k \in 1..w |-> flat[w * v + k]]

\* The original vertex indices referenced by the faces matching m, in order.
Refs(sh, m) ==
    LET mf == MatchingFaces(sh, m)
    IN  [p \in 1..(3 * Len(mf)) |-> Corner(sh, mf[((p - 1) \div 3) + 1], (p - 1) % 3)]

\* How many distinct original indices appear in refs before x first does.
Rank(refs, x) ==
    LET fp == CHOOSE p \in 1..Len(refs) :
                 refs[p] = x /\ \A q \in 1..(p - 1) : refs[q] # x
    IN  Cardinality({refs[q] : q \in 1..(fp - 1)})

\* C1: the Mesh built for (shape, m) holds exactly the faces of the shape
\* whose material id is m, in original face order: its k-th triangle is the
\* k-th matching face, each corner's compact index selects the position and
\* the normal of that corner's original vertex, and every vertex of the Mesh
\* is referenced by a matching face (other faces contribute nothing).
C1_SplitKeepsMatchingFaces ==
    \A e \in 1..Len(meshes) :
      LET m    == meshes[e].used_material
          mesh == meshes[e].mesh
          mf   == MatchingFaces(shape, m)
      IN  /\ Len(mesh.indices) = 3 * Len(mf)
          /\ Len(mesh.normals) = Len(mesh.vertices)
          /\ \A k \in 1..Len(mf) : \A j \in 0..2 :
               LET ci == mesh.indices[3 * (k - 1) + j + 1]
                   oi == Corner(shape, mf[k], j)
               IN  /\ ci + 1 \in DOMAIN mesh.vertices
                   /\ mesh.vertices[ci + 1] = Tuple(shape.positions, oi, 3)
                   /\ mesh.normals[ci + 1] = Tuple(shape.normals, oi, 3)
          /\ \A v \in 1..Len(mesh.vertices) :
               \E p \in 1..Len(mesh.indices) : mesh.indices[p] = v - 1

\* C1 witness: a shape whose two faces use different material ids has been
\* split into its two meshes, each skipping the other's face.
C1_Witness ==
    /\ todo = <<>>
    /\ Len(meshes) = 2
    /\ Len(shape.material_ids) = 2
    /\ Len(meshes[1].mesh.indices) = 3
    /\ meshes[2].mesh.vertices # meshes[1].mesh.vertices

\* C2: a Mesh's index buffer is 3 times as long as the shape has faces with
\* the Mesh's material id, and every index is below the Mesh's vertex count.
C2_IndexBufferInRange ==
    \A e \in 1..Len(meshes) :
      LET mesh == meshes[e].mesh
          n    == Cardinality({f \in 1..Len(shape.material_ids) :
                                 shape.material_ids[f] = meshes[e].used_material})
      IN  /\ Len(mesh.indices) = 3 * n
          /\ \A p \in 1..Len(mesh.indices) :
               mesh.indices[p] >= 0 /\ mesh.indices[p] < Len(mesh.vertices)

\* C2 witness: all MaxFaces faces share one material id and the Mesh built
\* for it has fewer vertices than the shape's largest original index + 1.
C2_Witness ==
    /\ Len(meshes) = 1 /\ todo = <<>>
    /\ Len(shape.material_ids) = MaxFaces
    /\ Len(meshes[1].mesh.indices) = 3 * MaxFaces
    /\ Len(meshes[1].mesh.vertices) = 2
    /\ \E p \in 1..Len(shape.indices) : shape.indices[p] = 2

\* C3: a Mesh has as many vertices as the matching faces reference distinct
\* original vertex indices, and compact indices are handed out 0,1,2,... in
\* the order in which the original indices first appear.
C3_DedupByOriginalIndex ==
    \A e \in 1..Len(meshes) :
      LET mesh == meshes[e].mesh
          refs == Refs(shape, meshes[e].used_material)
      IN  /\ Len(mesh.vertices) = Cardinality({refs[p] : p \in 1..Len(refs)})
          /\ Len(mesh.indices) = Len(refs)
          /\ \A p \in 1..Len(refs) : mesh.indices[p] = Rank(refs, refs[p])

\* C3 witness: a Mesh with more vertex references than vertices, whose first
\* referenced original index is not 0, and which keeps vertices 0 and 1 apart
\* although they carry the same position and normal.
C3_Witness ==
    \E e \in 1..Len(meshes) :
      LET mesh == meshes[e].mesh
          refs == Refs(shape, meshes[e].used_material)
      IN  /\ Len(refs) = 6
          /\ refs[1] = 2
          /\ Len(mesh.vertices) = 3
          /\ \E a, b \in 1..3 : a # b /\ mesh.vertices[a] = mesh.vertices[b]

-----------------------------------------------------------------------------
(* Properties of TranslateMaterial (SpecCache, SpecClassify)               *)

\* A color with squared norm > 0.
NonZero(c) == c # Black

\* A color with squared norm < 0.01 (components are in hundredths).
NearZero(c) == c[1] * c[1] + c[2] * c[2] + c[3] * c[3] < 100

\* The rule of the classification procedure that applies to a non-emissive
\* material: the first that matches, in the order 2, 3, 4, 5.
Rule(mat) ==
    IF NonZero(mat.transmittance) /\ NonZero(mat.specular) THEN 2
    ELSE IF NearZero(mat.diffuse) /\ NonZero(mat.specular) THEN 3
    ELSE IF NonZero(mat.specular) \/ mat.specular_texname # "" THEN 4
    ELSE 5

RuleLayers(rule) ==
    CASE rule = 2 -> {"kDiffuseLayer", "kReflectionLayer", "kRefractionLayer"}
      [] rule = 3 -> {"kReflectionLayer"}
      [] rule = 4 -> {"kDiffuseLayer", "kReflectionLayer"}
      [] rule = 5 -> {"kDiffuseLayer"}

\* The texture the last call's LoadTexture(texname) returned (Null when the
\* decode failed).
Loaded(texname) ==
    LET p == CHOOSE q \in 1..Len(last.loads) : last.loads[q].name = texname
    IN  last.loads[p].texture

\* C4: a TranslateMaterial call for a name that an earlier call on the same
\* loader was made for returns the very Material instance the first call
\* returned, without running the classification procedure and without any
\* texture load, whatever the record's other fields are.
C4_MaterialCacheIdempotent ==
    (last.called /\ last.seen) =>
        /\ last.material = first[last.mat.name]
        /\ ~last.classified
        /\ last.loads = <<>>

\* C4 witness: two materials are cached, and the last call was a repeated
\* one whose record is emissive and names a texture while the instance it
\* got back is not emissive.
C4_Witness ==
    /\ last.called /\ last.seen
    /\ DOMAIN first = {"a", "b"}
    /\ NonZero(last.mat.emission)
    /\ last.mat.diffuse_texname # ""
    /\ "kEmissionLayer" \notin last.material.layers

\* C5 as stated: every call with a record whose emission color has squared
\* norm > 0 returns a Material with exactly the emission layer enabled.
C5_EmissiveRecordGivesEmissionOnly ==
    (last.called /\ NonZero(last.mat.emission)) =>
        last.material.layers = {"kEmissionLayer"}

\* C5 amended: every call with a record whose emission color has squared
\* norm > 0 and whose name no earlier call on the loader was made for
\* returns a Material with exactly the emission layer enabled, whatever its
\* other colors and texture names are.
C5_FirstEmissiveGivesEmissionOnly ==
    (last.called /\ ~last.seen /\ NonZero(last.mat.emission)) =>
        last.material.layers = {"kEmissionLayer"}

\* C5 witness: a first call for an emissive record with non-zero diffuse,
\* specular and transmittance colors and all three textures named.
C5_Witness ==
    /\ last.called /\ ~last.seen
    /\ NonZero(last.mat.emission)
    /\ NonZero(last.mat.specular) /\ NonZero(last.mat.transmittance)
    /\ ~NearZero(last.mat.diffuse)
    /\ last.mat.diffuse_texname # "" /\ last.mat.specular_texname # ""
    /\ last.mat.bump_texname # ""
    /\ last.material.layers = {"kEmissionLayer"}

\* C6: for a non-emissive record whose name is not in the material cache,
\* the enabled layers are those of the first matching rule (2: refraction +
\* diffuse + reflection, 3: reflection only, 4: diffuse + reflection,
\* 5: diffuse only), plus the shading-normal layer exactly when a bump
\* texture is named.
C6_FirstMatchingRule ==
    (last.called /\ ~last.cached /\ ~NonZero(last.mat.emission)) =>
        last.material.layers =
            RuleLayers(Rule(last.mat)) \cup
            (IF last.mat.bump_texname # "" THEN {"kShadingNormalLayer"} ELSE {})

\* C6 witness: rule 3 decided a record that rule 4 matches as well (near-zero
\* diffuse, non-zero specular, a specular texture), with a bump texture.
C6_Witness ==
    /\ last.called /\ ~last.cached
    /\ ~NonZero(last.mat.emission)
    /\ Rule(last.mat) = 3
    /\ last.mat.specular_texname # ""
    /\ last.mat.bump_texname # ""
    /\ last.material.layers = {"kReflectionLayer", "kShadingNormalLayer"}

\* C8: a record that is classified, gets the diffuse layer and names a
\* diffuse texture the decoder fails on yields a Material (one of the
\* instances created, not null) whose diffuse color is the flat diffuse color.
C8_MissingTextureFallsBackToFlat ==
    (/\ last.called /\ last.classified
     /\ last.mat.diffuse_texname # ""
     /\ \E p \in 1..Len(last.loads) :
          /\ last.loads[p].name = last.mat.diffuse_texname
          /\ last.loads[p].texture = Null
     /\ "kDiffuseLayer" \in last.material.layers) =>
        /\ last.material.id \in 1..loader.n_materials
        /\ "uberv2.diffuse.color" \in DOMAIN last.material.inputs
        /\ last.material.inputs["uberv2.diffuse.color"] =
             ConstantFloat3(last.mat.diffuse)

\* C10: when rule 2 or rule 3 classifies a record, the slot
\* "uberv2.reflection.color" holds the specular texture raised to 2.2 when a
\* specular texture is named and the flat specular color otherwise; and a
\* Material with the reflection layer enabled has that slot assigned.
C10_ReflectionColorAssigned ==
    /\ (/\ last.called /\ last.classified
        /\ ~NonZero(last.mat.emission)
        /\ Rule(last.mat) \in {2, 3}) =>
           /\ "uberv2.reflection.color" \in DOMAIN last.material.inputs
           /\ last.material.inputs["uberv2.reflection.color"] =
                IF last.mat.specular_texname # ""
                THEN GammaTexture(Loaded(last.mat.specular_texname))
                ELSE ConstantFloat3(last.mat.specular)
    /\ (last.called /\ "kReflectionLayer" \in last.material.layers) =>
           "uberv2.reflection.color" \in DOMAIN last.material.inputs

-----------------------------------------------------------------------------
(* Properties of LoadScene (SpecScene)                                     *)

\* The items of the scene, in attach order, that satisfy Test.
Attached(Test(_)) == SelectSeq(result.scene, Test)

\* The positions of the scene at which an item of the given kind sits.
PositionsOf(kind) ==
    {p \in 1..Len(result.scene) : result.scene[p].kind = kind}

\* C7: for every attached Mesh with index buffer length 3K: if its material
\* is in the emissive set, the AreaLights referencing it are exactly K, for
\* the triangles 0..K-1 in this order, all attached after the Mesh; if it
\* has no material or a material outside the emissive set, no AreaLight
\* references it.
C7_AreaLightPerTriangle ==
    result.loaded =>
      \A p \in PositionsOf("Mesh") :
        LET it     == result.scene[p]
            K      == Len(it.mesh.indices) \div 3
            lights == Attached(LAMBDA x : x.kind = "AreaLight" /\ x.mesh = it.id)
        IN  /\ 3 * K = Len(it.mesh.indices)
            /\ IF it.material # NoMaterial /\ it.material.id \in result.emissives
               THEN /\ lights = [l \in 1..K |->
                                   [kind |-> "AreaLight", mesh |-> it.id,
                                    prim |-> l - 1]]
                    /\ \A q \in PositionsOf("AreaLight") :
                         result.scene[q].mesh = it.id => q > p
               ELSE lights = <<>>

\* C7 witness: a returned scene with a two-triangle Mesh of an emissive
\* material, followed by its two AreaLights.
C7_Witness ==
    /\ result.loaded /\ result.returned
    /\ \E p \in PositionsOf("Mesh") :
         /\ result.scene[p].material.id \in result.emissives
         /\ Len(result.scene[p].mesh.indices) = 6
         /\ result.scene[p + 1] =
              [kind |-> "AreaLight", mesh |-> result.scene[p].id, prim |-> 0]
         /\ result.scene[p + 2] =
              [kind |-> "AreaLight", mesh |-> result.scene[p].id, prim |-> 1]

\* C9: every LoadScene call whose file parse succeeds returns a scene with
\* exactly one DirectionalLight and exactly one ImageBasedLight attached,
\* both after every Mesh and every AreaLight, whatever the shapes, the
\* materials and the outcome of the image decodes of the load.
C9_DefaultLightsAlwaysAttached ==
    (result.loaded /\ result.parsed) =>
        /\ result.returned
        /\ Cardinality(PositionsOf("DirectionalLight")) = 1
        /\ Cardinality(PositionsOf("ImageBasedLight")) = 1
        /\ \A d \in PositionsOf("DirectionalLight") \cup PositionsOf("ImageBasedLight") :
             \A p \in PositionsOf("Mesh") \cup PositionsOf("AreaLight") : p < d

-----------------------------------------------------------------------------
(* Properties of LoadTexture (SpecTexture)                                 *)

\* C11: the texture cache has an entry for a name exactly when an earlier
\* decode for that name succeeded, and the entry is the Texture that decode
\* made; a call for a cached name returns the cached instance and does not
\* ask the decoder, whatever the basepath; a call for an uncached name asks
\* the decoder for basepath + name; a failed decode returns null and leaves
\* the cache as it was.
C11_TextureCacheHoldsSuccessfulDecodes ==
    /\ DOMAIN loader.m_texture_cache = DOMAIN decodes
    /\ \A n \in DOMAIN decodes : loader.m_texture_cache[n] = decodes[n]
    /\ lastload.called =>
         /\ lastload.cached =>
              /\ lastload.texture = lastload.before[lastload.name]
              /\ lastload.decoded = <<>>
              /\ loader.m_texture_cache = lastload.before
         /\ ~lastload.cached =>
              lastload.decoded = <<lastload.basepath \o lastload.name>>
         /\ (~lastload.cached /\ lastload.fails) =>
              /\ lastload.texture = Null
              /\ loader.m_texture_cache = lastload.before
         /\ (~lastload.cached /\ ~lastload.fails) =>
              /\ lastload.texture # Null
              /\ lastload.texture.path = lastload.basepath \o lastload.name
              /\ loader.m_texture_cache[lastload.name] = lastload.texture

\* C11 witness: with two names cached, a call for a cached name with another
\* basepath than the one it was decoded from got the cached instance back
\* without the decoder being asked.
C11_Witness ==
    /\ lastload.called /\ lastload.cached
    /\ lastload.texture.path # lastload.basepath \o lastload.name
    /\ lastload.decoded = <<>>
    /\ Cardinality(DOMAIN loader.m_texture_cache) = 2

-----------------------------------------------------------------------------
(* Properties of the UV buffer (SpecSplit)                                 *)

\* C12: the UV buffer of every Mesh is as long as the Mesh has vertices; for
\* a shape without texcoord data every UV is (0,0), and for a shape with
\* texcoord data the UV at each corner's compact index is the texcoord of
\* that corner's original vertex index.
C12_UVsAlwaysPresent ==
    \A e \in 1..Len(meshes) :
      LET mesh == meshes[e].mesh
          refs == Refs(shape, meshes[e].used_material)
      IN  /\ Len(mesh.uvs) = Len(mesh.vertices)
          /\ Len(mesh.uvs) >= 1
          /\ IF shape.texcoords = <<>>
             THEN \A v \in 1..Len(mesh.uvs) : mesh.uvs[v] = <<0, 0>>
             ELSE /\ Len(mesh.indices) = Len(refs)
                  /\ \A p \in 1..Len(refs) :
                       /\ mesh.indices[p] + 1 \in DOMAIN mesh.uvs
                       /\ mesh.uvs[mesh.indices[p] + 1] =
                            Tuple(shape.texcoords, refs[p], 2)

\* C12 witness: a shape without texcoord data gave a Mesh of three vertices
\* with three zero UVs.
C12_Witness ==
    /\ shape.texcoords = <<>>
    /\ \E e \in 1..Len(meshes) :
         /\ Len(meshes[e].mesh.vertices) = 3
         /\ meshes[e].mesh.uvs = << <<0, 0>>, <<0, 0>>, <<0, 0>> >>

====
